---- MODULE Spec2Model ----
(***************************************************************************)
(* Diff Digest (src/src/app/page.tsx): the client-side note generation     *)
(* workflow of the Home component.  The state is the component's React     *)
(* state (diffs, notes, processingAll, jsonAccumulator) together with the  *)
(* asynchronous functions in flight: every call of generateNotes that has  *)
(* passed its first await (an "attempt") and every generateAllNotes loop   *)
(* (a "run").  An async function keeps the bindings of the render in which *)
(* it was created, so an attempt and a run carry the values of `notes` and *)
(* `jsonAccumulator` they closed over.                                     *)
(*                                                                         *)
(* Specifications:                                                         *)
(*   Spec          one visit of the page, the clock standing still         *)
(*   LiveSpec      Spec with every request and response stream settling    *)
(*   BatchSpec     LiveSpec with clicks only while the calls to come fit   *)
(*                 the bound on attempts; streams carry no delta frames    *)
(*   CacheSpec     several visits with the clock advancing: the cache in   *)
(*                 localStorage (saveNotesToCache, loadNotesFromCache)     *)
(*   FaultSpec     visits in which localStorage fails                      *)
(*   ReplaySpec    attempts one after the other, their delta frames and    *)
(*                 partial values recorded                                 *)
(*   ParseSpec     attempts one after the other, on a wider set of delta   *)
(*                 fragments                                               *)
(*   ChunkSpec     the read loop of generateNotes on one response body     *)
(*                 delivered in chunks                                     *)
(*   EndpointSpec  the generate-notes endpoint (src/unnamed/part_000)      *)
(*                 handling one request                                    *)
(*                                                                         *)
(* Text is modelled as a sequence of tokens:                               *)
(*   "{"  "}"  ","   punctuation                                           *)
(*   "D"   the member  "developerNote":"dev"                               *)
(*   "M"   the member  "marketingNote":"mkt"                               *)
(*   "d"   the member  "developerNote":""                                  *)
(*   "m"   the member  "marketingNote":""                                  *)
(*   "X"   the member  "title":"marketingNote"                             *)
(***************************************************************************)
EXTENDS Integers, Sequences, FiniteSets, TLC

VARIABLES diffs, notes, processingAll, jsonAccumulator, att, run, frames,
          storage, now, loadedAge, fault, history,
          request, model, response, stream,
          body, wire, loop, partialData, handled

\* the page: React state, the attempts and runs under way, localStorage, the clock
pageVars == <<diffs, notes, processingAll, jsonAccumulator, att, run, frames, storage, now>>

\* loadedAge[id]: now - timestamp of the cache entry the last loadNotesFromCache
\* read for the id, NoAge when it read none (history of the visit).
\* fault: what localStorage does when the page uses it
visitVars == <<loadedAge, fault>>

\* history[k]: the delta frames attempt k has handled and what the speculative
\* parse made of each (history of the attempts, kept after they have ended)
replayVars == <<history>>

\* the generate-notes endpoint handling one request: the request, the model's
\* event stream, the Response returned and its ReadableStream
endpointVars == <<request, model, response, stream>>

\* the read loop of generateNotes on one response: the bytes of the response
\* body, those the reader has still to deliver, where the loop is, its buffer
\* partialData and the payloads of the lines it has handled
chunkVars == <<body, wire, loop, partialData, handled>>

vars == <<pageVars, visitVars, replayVars, endpointVars, chunkVars>>

(* ------------------------------ bounds --------------------------------- *)

\* generateNotes calls that get past the cache check, over the whole behaviour
MaxStarts == 3

\* frames the response streams deliver over the whole behaviour
MaxFrames == 2

\* generateAllNotes loops started over the whole behaviour
MaxRuns == 2

\* the clock stops once it has passed this many expiration periods
MaxDays == 1

\* events the model emits for one request
MaxEvents == 2

\* frames in the body of the response the read loop is followed on
MaxBodyFrames == 2

Slots == 1..MaxStarts

Runs == 1..MaxRuns

(* ------------------------------ values --------------------------------- *)

Null == "null"

Undefined == "undefined"

DiffIds == {"a", "b"}

\* the page of diffs the pager returns
PageOne == <<"a", "b">>

NullData == [isNull |-> TRUE, developerNote |-> Undefined, marketingNote |-> Undefined]

Obj(dev, mkt) == [isNull |-> FALSE, developerNote |-> dev, marketingNote |-> mkt]

\* notes[id] === undefined
Absent == [present |-> FALSE, loading |-> FALSE, error |-> Null, data |-> NullData]

Entry(l, e, d) == [present |-> TRUE, loading |-> l, error |-> e, data |-> d]

EmptyNotes == Obj("", "")

LoadingEntry == Entry(TRUE, Null, EmptyNotes)

(* ------------------------------- text ---------------------------------- *)

FullText == <<"{", "D", ",", "M", "}">>

DevOnlyText == <<"{", "D", "}">>

TruncatedText == <<"{", "D">>

\* the delta fragments the model may emit
Deltas == {<<"{", "D">>, <<",", "M", "}">>, FullText}

\* the texts a done event may carry
DoneTexts == {FullText, DevOnlyText, TruncatedText}

Includes(s, tok) == \E i \in 1..Len(s) : s[i] = tok

IsMember(tok) == tok \in {"D", "M", "d", "m", "X"}

\* JSON.parse accepts the text: an object of comma-separated members
Parses(s) ==
    /\ Len(s) >= 2
    /\ s[1] = "{"
    /\ s[Len(s)] = "}"
    /\ \/ Len(s) = 2
       \/ /\ Len(s) % 2 = 1
          /\ \A i \in 2..(Len(s) - 1) :
                IF i % 2 = 0 THEN IsMember(s[i]) ELSE s[i] = ","

\* JSON.parse's value for a text it accepts
ParsedValue(s) ==
    Obj(IF Includes(s, "D") THEN "dev" ELSE IF Includes(s, "d") THEN "" ELSE Undefined,
        IF Includes(s, "M") THEN "mkt" ELSE IF Includes(s, "m") THEN "" ELSE Undefined)

(* ------------------------ incremental reconstruction ------------------- *)

\* updatedJson.includes('}') && includes('"developerNote"') && includes('"marketingNote"')
LooksComplete(u) ==
    /\ Includes(u, "}")
    /\ Includes(u, "D") \/ Includes(u, "d")
    /\ Includes(u, "M") \/ Includes(u, "m") \/ Includes(u, "X")

\* fixedJson: '}' appended unless the text ends with it, '{' prepended unless it starts with it
RepairJson(u) ==
    LET a == IF Len(u) > 0 /\ u[Len(u)] = "}" THEN u ELSE u \o <<"}">>
    IN  IF a[1] = "{" THEN a ELSE <<"{">> \o a

\* OrEmpty with || '' left out
OrEmptyKeepsUndefined(x) == x

\* x || ''
OrEmpty(x) == IF x = Undefined THEN "" ELSE x

\* PartialEntry with the entry marked as finished
PartialEntryDone(v) == Entry(FALSE, Null, Obj(OrEmpty(v.developerNote), OrEmpty(v.marketingNote)))

\* the entry a successful speculative parse writes
PartialEntry(v) == Entry(TRUE, Null, Obj(OrEmpty(v.developerNote), OrEmpty(v.marketingNote)))

\* CompletedEntry with the loading flag left set
CompletedEntryLoading(v) == Entry(TRUE, Null, v)

\* the entry a done event with parsable text writes
CompletedEntry(v) == Entry(FALSE, Null, v)

\* NotesAfterDelta with the updater's ...prev left out
NotesAfterDeltaAlone(ns, id, u) ==
    IF LooksComplete(u) /\ Parses(RepairJson(u))
    THEN [i \in DiffIds |-> IF i = id THEN PartialEntry(ParsedValue(RepairJson(u))) ELSE Absent]
    ELSE ns

\* the notes collection after the delta handler has run on updatedJson u
NotesAfterDelta(ns, id, u) ==
    IF LooksComplete(u) /\ Parses(RepairJson(u))
    THEN [ns EXCEPT ![id] = PartialEntry(ParsedValue(RepairJson(u)))]
    ELSE ns

\* NotesAfterDone with the parse failure not caught apart: the entry is written
\* from whatever the text holds
NotesAfterDoneUnchecked(ns, id, t) == [ns EXCEPT ![id] = CompletedEntry(ParsedValue(t))]

\* the notes collection after the done handler has run on text t
NotesAfterDone(ns, id, t) ==
    IF Parses(t) THEN [ns EXCEPT ![id] = CompletedEntry(ParsedValue(t))] ELSE ns

(* ------------------------------- cache --------------------------------- *)

\* 24 hours in milliseconds
CACHE_EXPIRATION == 24 * 60 * 60 * 1000

\* JSON.stringify of a notes object: a member that is undefined is left out
Stringify(d) ==
    LET dev == IF d.developerNote = Undefined THEN <<>>
               ELSE IF d.developerNote = "" THEN <<"d">> ELSE <<"D">>
        mkt == IF d.marketingNote = Undefined THEN <<>>
               ELSE IF d.marketingNote = "" THEN <<"m">> ELSE <<"M">>
        sep == IF dev # <<>> /\ mkt # <<>> THEN <<",">> ELSE <<>>
    IN  IF d.isNull THEN <<"null">> ELSE <<"{">> \o dev \o sep \o mkt \o <<"}">>

\* storage[id]: the member of the item 'diffDigestNotes' for a diff id, as its
\* JSON text holds it
NoCacheEntry == [present |-> FALSE, timestamp |-> 0, text |-> <<>>]

CacheEntry(ts, d) == [present |-> TRUE, timestamp |-> ts, text |-> Stringify(d)]

\* Savable with the test of the loading flag left out
SavableWhileLoading(e) == e.present /\ e.error = Null /\ ~e.data.isNull

\* !noteData.loading && !noteData.error && noteData.data
Savable(e) == e.present /\ ~e.loading /\ e.error = Null /\ ~e.data.isNull

\* SaveNotes with cacheData started from the item already stored
SaveNotesMerging(ns, t) ==
    [i \in DiffIds |-> IF Savable(ns[i]) THEN CacheEntry(t, ns[i].data) ELSE storage[i]]

\* the item saveNotesToCache writes for the notes ns at time t
SaveNotes(ns, t) ==
    [i \in DiffIds |-> IF Savable(ns[i]) THEN CacheEntry(t, ns[i].data) ELSE NoCacheEntry]

\* Fresh with <= for <
FreshInclusive(c, t) == t - c.timestamp <= CACHE_EXPIRATION

\* now - cacheEntry.timestamp < CACHE_EXPIRATION
Fresh(c, t) == t - c.timestamp < CACHE_EXPIRATION

\* LoadedEntry with the data replaced by empty notes
LoadedEntryEmpty(c) == Entry(FALSE, Null, EmptyNotes)

\* the entry loadNotesFromCache makes of a cache entry
LoadedEntry(c) == Entry(FALSE, Null, ParsedValue(c.text))

\* loadedNotes of loadNotesFromCache for the item st read at time t
LoadNotes(st, t) ==
    [i \in DiffIds |-> IF st[i].present /\ Fresh(st[i], t) THEN LoadedEntry(st[i]) ELSE Absent]

NoAge == -1

\* fault: "none"; "quota" (localStorage.setItem throws: the quota is
\* exceeded); "denied" (every access to localStorage throws); "corrupt" (the
\* item getItem returns is not the text of a JSON value: the JSON.parse of
\* loadNotesFromCache throws)
Faults == {"none", "quota", "denied", "corrupt"}

\* the try block of saveNotesToCache ends in its catch block
SaveThrows == fault \in {"quota", "denied"}

\* the try block of loadNotesFromCache ends in its catch block
LoadThrows == fault \in {"denied", "corrupt"}

\* the item in localStorage after saveNotesToCache has run on the notes ns
StorageAfterSave(ns, t) == IF SaveThrows THEN storage ELSE SaveNotes(ns, t)

\* NotesAfterLoad with the entries seeded whatever the try block met
NotesAfterLoadUnguarded(t) == LoadNotes(storage, t)

\* the notes after loadNotesFromCache: setNotes(loadedNotes) is the last
\* statement of the try block, and the notes of the first render are empty
NotesAfterLoad(t) == IF LoadThrows THEN [i \in DiffIds |-> Absent] ELSE LoadNotes(storage, t)

\* the effect on [saveNotesToCache]: it runs after a render in which setNotes
\* was called, with the notes of that render
SavePass(called) == storage' = IF called THEN StorageAfterSave(notes', now) ELSE storage

(* ------------------------------ attempts ------------------------------- *)

\* att[k].pc: "free" (not started), "fetch" (awaiting fetch), "read" (awaiting
\* reader.read()), "ended" (generateNotes has returned).
\* run = 0 for a manual trigger, else the generateAllNotes loop that awaits it.
\* accSnap is jsonAccumulator[diffId] of the render the function closed over.
\* assembled (the deltas received, concatenated) and sawDone (a done event was
\* handled, its text parsed or not) record the attempt's history.
FreeSlot == [pc |-> "free", id |-> "", run |-> 0, accSnap |-> <<>>, assembled |-> <<>>, sawDone |-> FALSE]

EndedSlot == [FreeSlot EXCEPT !.pc = "ended"]

InFlight(k) == att[k].pc \in {"fetch", "read"}

HasFreeSlot == \E k \in Slots : att[k].pc = "free"

NewSlot == CHOOSE k \in Slots : att[k].pc = "free" /\ \A j \in 1..(k - 1) : att[j].pc # "free"

\* notes[id]?.data && !notes[id]?.loading && !notes[id]?.error
IsCached(e) == e.present /\ ~e.data.isNull /\ ~e.loading /\ e.error = Null

\* notes[id]?.loading
IsLoading(e) == e.present /\ e.loading

\* generateNotes up to its first await, called from a closure over cn, ca
GenerateNotes(id, cn, ca, r) ==
    IF IsCached(cn[id])
    THEN UNCHANGED <<notes, jsonAccumulator, att, storage>>
    ELSE /\ HasFreeSlot
         /\ jsonAccumulator' = [jsonAccumulator EXCEPT ![id] = <<>>]
         /\ notes' = [notes EXCEPT ![id] = LoadingEntry]
         /\ SavePass(TRUE)
         /\ att' = [att EXCEPT ![NewSlot] =
                       [pc |-> "fetch", id |-> id, run |-> r, accSnap |-> ca[id],
                        assembled |-> <<>>, sawDone |-> FALSE]]

(* -------------------------------- runs --------------------------------- *)

\* run[r].pc: "free", "await" (awaiting generateNotes), "delay" (awaiting the
\* pacing timer), "finished".  notes, acc, diffs are the values of the render
\* generateAllNotes closed over; started lists the ids it invoked generation for.
FreeRun == [pc |-> "free", idx |-> 0, notes |-> [i \in DiffIds |-> Absent], acc |-> [i \in DiffIds |-> <<>>], diffs |-> <<>>, started |-> <<>>]

FinishedRun == [FreeRun EXCEPT !.pc = "finished"]

ActiveRun(r) == run[r].pc \in {"await", "delay"}

HasFreeRun == \E r \in Runs : run[r].pc = "free"

NewRun == CHOOSE r \in Runs : run[r].pc = "free" /\ \A j \in 1..(r - 1) : run[j].pc # "free"

Min(S) == CHOOSE x \in S : \A y \in S : x <= y

\* the first item at or after `from` the loop does not skip; Len(cd) + 1 when none
NextItem(cn, cd, from) ==
    LET todo == {j \in from..Len(cd) : ~IsCached(cn[cd[j]]) /\ ~IsLoading(cn[cd[j]])}
    IN  IF todo = {} THEN Len(cd) + 1 ELSE Min(todo)

\* AfterInvoke with the await left out: the loop goes straight to the pacing delay
AfterInvokeNoAwait == "delay"

\* await generateNotes(...): the loop is suspended until the call returns
AfterInvoke == "await"

\* ProcessingAllAfterLoop with the finally block left out
ProcessingAllLeftSet == TRUE

\* finally { setProcessingAll(false) }
ProcessingAllAfterLoop == FALSE

\* the for loop from item `from` to its next suspension or to its end
LoopFrom(r, from, cn, ca, cd, st, pa) ==
    LET j == NextItem(cn, cd, from)
    IN  IF j > Len(cd)
        THEN /\ processingAll' = ProcessingAllAfterLoop
             /\ run' = [run EXCEPT ![r] = FinishedRun]
             /\ UNCHANGED <<notes, jsonAccumulator, att, storage>>
        ELSE /\ GenerateNotes(cd[j], cn, ca, r)
             /\ processingAll' = pa
             /\ run' = [run EXCEPT ![r] =
                           [pc |-> IF IsCached(cn[cd[j]]) THEN "delay" ELSE AfterInvoke,
                            idx |-> j, notes |-> cn, acc |-> ca, diffs |-> cd,
                            started |-> Append(st, cd[j])]]

\* generateNotes has returned: the loop awaiting it goes on to the pacing delay
ResumeRun(k) ==
    /\ run' = IF att[k].run # 0 /\ run[att[k].run].pc = "await"
              THEN [run EXCEPT ![att[k].run].pc = "delay"]
              ELSE run
    /\ UNCHANGED processingAll

\* RunAfterFailure with the failure rethrown: the loop's finally block ends the run
RunAbortsOnFailure(k) ==
    IF att[k].run # 0
    THEN /\ run' = [run EXCEPT ![att[k].run] = FinishedRun]
         /\ processingAll' = FALSE
    ELSE UNCHANGED <<run, processingAll>>

\* the catch block of generateNotes swallows the failure
RunAfterFailure(k) == ResumeRun(k)

\* error.message of the catch block: the message of an error the runtime raises
\* (a rejected fetch or read, a SyntaxError of JSON.parse) or one of the two the
\* program makes ('HTTP error! status: ...', 'No response body').  The program
\* reads of it only whether there is one (!notes[id]?.error), so all messages
\* are one value.
ErrorMessage == "error.message"

\* FailedEntry with the loading flag left set
FailedEntryLoading(msg) == Entry(TRUE, msg, NullData)

\* the catch block's entry
FailedEntry(msg) == Entry(FALSE, msg, NullData)

\* generateNotes ends in its catch block with message msg
Fail(k, msg) ==
    /\ notes' = [notes EXCEPT ![att[k].id] = FailedEntry(msg)]
    /\ att' = [att EXCEPT ![k] = EndedSlot]
    /\ RunAfterFailure(k)
    /\ SavePass(TRUE)
    /\ UNCHANGED <<diffs, jsonAccumulator, now>>

(* ------------------------------- actions ------------------------------- *)

NoHistory == [id |-> "", deltas |-> <<>>, partials |-> <<>>]

NoRequest == [variant |-> "none", json |-> FALSE, id |-> Undefined, description |-> Undefined, diff |-> Undefined]

\* a status that is undefined (statuses are numbers otherwise)
NoStatus == 0

NoThrown == [isError |-> FALSE, hasStatus |-> FALSE, status |-> NoStatus]

NoModel == [state |-> "idle", emitted |-> <<>>, thrown |-> NoThrown]

NoResponse == [kind |-> "none", status |-> NoStatus, error |-> Undefined, details |-> Undefined]

NoStream == [state |-> "none", frames |-> <<>>]

PageInit ==
    /\ diffs = <<>>
    /\ notes = [i \in DiffIds |-> Absent]
    /\ processingAll = FALSE
    /\ jsonAccumulator = [i \in DiffIds |-> <<>>]
    /\ att = [k \in Slots |-> FreeSlot]
    /\ run = [r \in Runs |-> FreeRun]
    /\ frames = 0
    /\ storage = [i \in DiffIds |-> NoCacheEntry]
    /\ now = 0
    /\ loadedAge = [i \in DiffIds |-> NoAge]
    /\ fault = "none"
    /\ history = [k \in Slots |-> NoHistory]

\* no request has reached the endpoint
EndpointIdle ==
    /\ request = NoRequest
    /\ model = NoModel
    /\ response = NoResponse
    /\ stream = NoStream

\* no response body is being read
ChunkIdle ==
    /\ body = <<>>
    /\ wire = <<>>
    /\ loop = "idle"
    /\ partialData = <<>>
    /\ handled = <<>>

Init == PageInit /\ EndpointIdle /\ ChunkIdle

\* fetchDiffs(1) of the mount effect succeeds: setDiffs(data.diffs)
FetchDiffs ==
    /\ diffs = <<>>
    /\ diffs' = PageOne
    /\ UNCHANGED <<notes, processingAll, jsonAccumulator, att, run, frames, storage, now>>

\* the item's Generate Notes button: disabled={notes[item.id]?.loading},
\* onClick={() => generateNotes(item.id, ...)} of the current render
ClickGenerate(id) ==
    /\ \E i \in 1..Len(diffs) : diffs[i] = id
    /\ ~IsLoading(notes[id])
    /\ GenerateNotes(id, notes, jsonAccumulator, 0)
    /\ UNCHANGED <<diffs, processingAll, run, frames, now>>

\* the Generate All button's disabled attribute
BatchButtonDisabled ==
    processingAll \/ Len(diffs) = 0 \/ \E i \in DiffIds : IsLoading(notes[i])

\* if (processingAll || diffs.length === 0) return;
ReturnsAtOnce == processingAll \/ Len(diffs) = 0

\* BatchInvocable with the processing-all flag left out of both tests
BatchInvocableNoFlag == Len(diffs) # 0 /\ ~\E i \in DiffIds : IsLoading(notes[i])

\* a click reaches generateAllNotes and gets past its first line
BatchInvocable == ~BatchButtonDisabled /\ ~ReturnsAtOnce

\* generateAllNotes from the click to its first suspension
ClickGenerateAll ==
    /\ BatchInvocable
    /\ HasFreeRun
    /\ LoopFrom(NewRun, 1, notes, jsonAccumulator, diffs, <<>>, TRUE)
    /\ UNCHANGED <<diffs, frames, now>>

\* the pacing timer of run r fires: the loop goes on with the next item
DelayElapsed(r) ==
    /\ run[r].pc = "delay"
    /\ LoopFrom(r, run[r].idx + 1, run[r].notes, run[r].acc, run[r].diffs, run[r].started, processingAll)
    /\ UNCHANGED <<diffs, frames, now>>

\* fetch('/api/generate-notes') rejects
FetchRejects(k) ==
    /\ att[k].pc = "fetch"
    /\ Fail(k, ErrorMessage)
    /\ UNCHANGED frames

\* !response.ok
FetchNotOk(k) ==
    /\ att[k].pc = "fetch"
    /\ Fail(k, ErrorMessage)
    /\ UNCHANGED frames

\* !response.body
FetchNoBody(k) ==
    /\ att[k].pc = "fetch"
    /\ Fail(k, ErrorMessage)
    /\ UNCHANGED frames

\* the response is OK and has a body: the read loop starts
FetchOk(k) ==
    /\ att[k].pc = "fetch"
    /\ att' = [att EXCEPT ![k].pc = "read"]
    /\ UNCHANGED <<diffs, notes, processingAll, jsonAccumulator, run, frames, storage, now>>

\* currentJson + eventData.data.delta, currentJson read from the closure
UpdatedJson(k, d) == att[k].accSnap \o d

\* a chunk holding one response.output_text.delta frame
DeltaFrame(k, d) ==
    /\ att[k].pc = "read"
    /\ frames < MaxFrames
    /\ jsonAccumulator' = [jsonAccumulator EXCEPT ![att[k].id] = UpdatedJson(k, d)]
    /\ notes' = NotesAfterDelta(notes, att[k].id, UpdatedJson(k, d))
    /\ att' = [att EXCEPT ![k].assembled = @ \o d]
    /\ frames' = frames + 1
    /\ SavePass(LooksComplete(UpdatedJson(k, d)) /\ Parses(RepairJson(UpdatedJson(k, d))))
    /\ UNCHANGED <<diffs, processingAll, run, now>>

\* a chunk holding one response.output_text.done frame
DoneFrame(k, t) ==
    /\ att[k].pc = "read"
    /\ frames < MaxFrames
    /\ notes' = NotesAfterDone(notes, att[k].id, t)
    /\ att' = [att EXCEPT ![k].sawDone = TRUE]
    /\ frames' = frames + 1
    /\ SavePass(Parses(t))
    /\ UNCHANGED <<diffs, processingAll, jsonAccumulator, run, now>>

\* a chunk holding one frame of another event type, or a line without "data: "
IgnoredFrame(k) ==
    /\ att[k].pc = "read"
    /\ frames < MaxFrames
    /\ frames' = frames + 1
    /\ UNCHANGED <<diffs, notes, processingAll, jsonAccumulator, att, run, storage, now>>

\* a chunk holding a "data: " line whose envelope JSON.parse rejects
MalformedFrame(k) ==
    /\ att[k].pc = "read"
    /\ frames < MaxFrames
    /\ Fail(k, ErrorMessage)
    /\ frames' = frames + 1

\* reader.read() rejects
ReadRejects(k) ==
    /\ att[k].pc = "read"
    /\ Fail(k, ErrorMessage)
    /\ UNCHANGED frames

\* reader.read() reports done: break, generateNotes returns
StreamCloses(k) ==
    /\ att[k].pc = "read"
    /\ att' = [att EXCEPT ![k] = EndedSlot]
    /\ ResumeRun(k)
    /\ UNCHANGED <<diffs, notes, jsonAccumulator, frames, storage, now>>

\* one visit of the page, the clock standing still
Next ==
    \/ FetchDiffs /\ UNCHANGED <<visitVars, replayVars, endpointVars, chunkVars>>
    \/ \E id \in DiffIds : ClickGenerate(id) /\ UNCHANGED <<visitVars, replayVars, endpointVars, chunkVars>>
    \/ ClickGenerateAll /\ UNCHANGED <<visitVars, replayVars, endpointVars, chunkVars>>
    \/ \E r \in Runs : DelayElapsed(r) /\ UNCHANGED <<visitVars, replayVars, endpointVars, chunkVars>>
    \/ \E k \in Slots : FetchRejects(k) /\ UNCHANGED <<visitVars, replayVars, endpointVars, chunkVars>>
    \/ \E k \in Slots : FetchNotOk(k) /\ UNCHANGED <<visitVars, replayVars, endpointVars, chunkVars>>
    \/ \E k \in Slots : FetchNoBody(k) /\ UNCHANGED <<visitVars, replayVars, endpointVars, chunkVars>>
    \/ \E k \in Slots : FetchOk(k) /\ UNCHANGED <<visitVars, replayVars, endpointVars, chunkVars>>
    \/ \E k \in Slots : \E d \in Deltas : DeltaFrame(k, d) /\ UNCHANGED <<visitVars, replayVars, endpointVars, chunkVars>>
    \/ \E k \in Slots : \E t \in DoneTexts : DoneFrame(k, t) /\ UNCHANGED <<visitVars, replayVars, endpointVars, chunkVars>>
    \/ \E k \in Slots : IgnoredFrame(k) /\ UNCHANGED <<visitVars, replayVars, endpointVars, chunkVars>>
    \/ \E k \in Slots : MalformedFrame(k) /\ UNCHANGED <<visitVars, replayVars, endpointVars, chunkVars>>
    \/ \E k \in Slots : ReadRejects(k) /\ UNCHANGED <<visitVars, replayVars, endpointVars, chunkVars>>
    \/ \E k \in Slots : StreamCloses(k) /\ UNCHANGED <<visitVars, replayVars, endpointVars, chunkVars>>

Spec == Init /\ [][Next]_vars

\* the request of attempt k is answered or fails, its response stream closes
\* or fails
Settles(k) ==
    /\ \/ FetchRejects(k)
       \/ FetchNotOk(k)
       \/ FetchNoBody(k)
       \/ FetchOk(k)
       \/ ReadRejects(k)
       \/ StreamCloses(k)
    /\ UNCHANGED <<visitVars, replayVars, endpointVars, chunkVars>>

\* the pacing timer of run r fires
TimerFires(r) == DelayElapsed(r) /\ UNCHANGED <<visitVars, replayVars, endpointVars, chunkVars>>

\* one visit of the page in which no fetch and no response stream stays
\* pending for ever, and every pacing timer fires
LiveSpec ==
    /\ Spec
    /\ \A k \in Slots : WF_vars(Settles(k))
    /\ \A r \in Runs : WF_vars(TimerFires(r))

(* -------------------- batch runs that can always go on ----------------- *)

FreeSlots == Cardinality({k \in Slots : att[k].pc = "free"})

\* the calls of generateNotes the active loops may still make
Reserved ==
    LET active == {r \in Runs : ActiveRun(r)}
    IN  IF active = {} THEN 0
        ELSE LET r == CHOOSE x \in active : TRUE
             IN  Cardinality(active) * (Len(run[r].diffs) - run[r].idx)

\* one visit of the page in which a click is followed only while the calls of
\* generateNotes still to come stay within MaxStarts: a loop under way never
\* waits for the bound. A response stream carries its done frame, a frame
\* that is not JSON, or nothing
BatchNext ==
    \/ FetchDiffs /\ UNCHANGED <<visitVars, replayVars, endpointVars, chunkVars>>
    \/ \E id \in DiffIds : FreeSlots > Reserved /\ ClickGenerate(id) /\ UNCHANGED <<visitVars, replayVars, endpointVars, chunkVars>>
    \/ FreeSlots >= Len(diffs) /\ ClickGenerateAll /\ UNCHANGED <<visitVars, replayVars, endpointVars, chunkVars>>
    \/ \E r \in Runs : DelayElapsed(r) /\ UNCHANGED <<visitVars, replayVars, endpointVars, chunkVars>>
    \/ \E k \in Slots : FetchRejects(k) /\ UNCHANGED <<visitVars, replayVars, endpointVars, chunkVars>>
    \/ \E k \in Slots : FetchNotOk(k) /\ UNCHANGED <<visitVars, replayVars, endpointVars, chunkVars>>
    \/ \E k \in Slots : FetchNoBody(k) /\ UNCHANGED <<visitVars, replayVars, endpointVars, chunkVars>>
    \/ \E k \in Slots : FetchOk(k) /\ UNCHANGED <<visitVars, replayVars, endpointVars, chunkVars>>
    \/ \E k \in Slots : \E t \in DoneTexts : DoneFrame(k, t) /\ UNCHANGED <<visitVars, replayVars, endpointVars, chunkVars>>
    \/ \E k \in Slots : MalformedFrame(k) /\ UNCHANGED <<visitVars, replayVars, endpointVars, chunkVars>>
    \/ \E k \in Slots : ReadRejects(k) /\ UNCHANGED <<visitVars, replayVars, endpointVars, chunkVars>>
    \/ \E k \in Slots : StreamCloses(k) /\ UNCHANGED <<visitVars, replayVars, endpointVars, chunkVars>>

\* BatchNext with every request and response stream settling and every pacing
\* timer firing
BatchSpec ==
    /\ Init
    /\ [][BatchNext]_vars
    /\ \A k \in Slots : WF_vars(Settles(k))
    /\ \A r \in Runs : WF_vars(TimerFires(r))

(* --------------------- the page over several visits -------------------- *)

\* time that passes between two events, in milliseconds
Advances == {CACHE_EXPIRATION - 1, CACHE_EXPIRATION, CACHE_EXPIRATION + 1}

\* Date.now() has advanced by d
Tick(d) ==
    /\ now + d <= MaxDays * (CACHE_EXPIRATION + 1)
    /\ now' = now + d
    /\ UNCHANGED <<diffs, notes, processingAll, jsonAccumulator, att, run, frames, storage>>

\* the page is loaded again: the attempts and runs of the page before are gone,
\* the state is the initial one and the mount effects run: loadNotesFromCache
\* (setNotes(loadedNotes)), and saveNotesToCache once with the empty notes of
\* the first render and once with the loaded notes
Reload ==
    /\ diffs' = <<>>
    /\ notes' = NotesAfterLoad(now)
    /\ storage' = StorageAfterSave(notes', now)
    /\ processingAll' = FALSE
    /\ jsonAccumulator' = [i \in DiffIds |-> <<>>]
    /\ att' = [k \in Slots |-> IF InFlight(k) THEN EndedSlot ELSE att[k]]
    /\ run' = [r \in Runs |-> IF ActiveRun(r) THEN FinishedRun ELSE run[r]]
    /\ loadedAge' = [i \in DiffIds |-> IF storage[i].present /\ ~LoadThrows
                                       THEN now - storage[i].timestamp ELSE NoAge]
    /\ UNCHANGED <<frames, now, fault, replayVars, endpointVars, chunkVars>>

\* visits in which the notes are generated item by item
CacheNext ==
    \/ FetchDiffs /\ UNCHANGED <<visitVars, replayVars, endpointVars, chunkVars>>
    \/ \E id \in DiffIds : ClickGenerate(id) /\ UNCHANGED <<visitVars, replayVars, endpointVars, chunkVars>>
    \/ \E k \in Slots : FetchNotOk(k) /\ UNCHANGED <<visitVars, replayVars, endpointVars, chunkVars>>
    \/ \E k \in Slots : FetchOk(k) /\ UNCHANGED <<visitVars, replayVars, endpointVars, chunkVars>>
    \/ \E k \in Slots : \E d \in Deltas : DeltaFrame(k, d) /\ UNCHANGED <<visitVars, replayVars, endpointVars, chunkVars>>
    \/ \E k \in Slots : \E t \in DoneTexts : DoneFrame(k, t) /\ UNCHANGED <<visitVars, replayVars, endpointVars, chunkVars>>
    \/ \E k \in Slots : StreamCloses(k) /\ UNCHANGED <<visitVars, replayVars, endpointVars, chunkVars>>
    \/ \E d \in Advances : Tick(d) /\ UNCHANGED <<visitVars, replayVars, endpointVars, chunkVars>>
    \/ Reload

CacheSpec == Init /\ [][CacheNext]_vars

(* ----------------------- visits with storage failing ------------------- *)

\* localStorage starts or stops failing
StorageFault(f) ==
    /\ f # fault
    /\ fault' = f
    /\ UNCHANGED <<pageVars, loadedAge, replayVars, endpointVars, chunkVars>>

\* visits in which the notes are generated item by item, the clock standing
\* still, and localStorage fails
FaultNext ==
    \/ FetchDiffs /\ UNCHANGED <<visitVars, replayVars, endpointVars, chunkVars>>
    \/ \E id \in DiffIds : ClickGenerate(id) /\ UNCHANGED <<visitVars, replayVars, endpointVars, chunkVars>>
    \/ \E k \in Slots : FetchNotOk(k) /\ UNCHANGED <<visitVars, replayVars, endpointVars, chunkVars>>
    \/ \E k \in Slots : FetchOk(k) /\ UNCHANGED <<visitVars, replayVars, endpointVars, chunkVars>>
    \/ \E k \in Slots : \E d \in Deltas : DeltaFrame(k, d) /\ UNCHANGED <<visitVars, replayVars, endpointVars, chunkVars>>
    \/ \E k \in Slots : \E t \in DoneTexts : DoneFrame(k, t) /\ UNCHANGED <<visitVars, replayVars, endpointVars, chunkVars>>
    \/ \E k \in Slots : StreamCloses(k) /\ UNCHANGED <<visitVars, replayVars, endpointVars, chunkVars>>
    \/ Reload
    \/ \E f \in Faults : StorageFault(f)

FaultSpec == Init /\ [][FaultNext]_vars

(* ----------------- attempts one after the other, recorded --------------- *)

\* what the delta handler's speculative parse makes of updatedJson u: the data
\* it writes, NullData when it writes nothing
PartialValue(u) ==
    IF LooksComplete(u) /\ Parses(RepairJson(u))
    THEN PartialEntry(ParsedValue(RepairJson(u))).data
    ELSE NullData

\* a click on Generate Notes while no attempt is under way
ReplayClick(id) ==
    /\ \A k \in Slots : ~InFlight(k)
    /\ ClickGenerate(id)
    /\ history' = IF IsCached(notes[id]) THEN history
                  ELSE [history EXCEPT ![NewSlot] = [id |-> id, deltas |-> <<>>, partials |-> <<>>]]
    /\ UNCHANGED <<visitVars, endpointVars, chunkVars>>

\* a delta frame, recorded with what the speculative parse made of it
ReplayDelta(k, d) ==
    /\ DeltaFrame(k, d)
    /\ history' = [history EXCEPT ![k].deltas = Append(@, d),
                                  ![k].partials = Append(@, PartialValue(UpdatedJson(k, d)))]
    /\ UNCHANGED <<visitVars, endpointVars, chunkVars>>

ReplayNext ==
    \/ FetchDiffs /\ UNCHANGED <<visitVars, replayVars, endpointVars, chunkVars>>
    \/ \E id \in DiffIds : ReplayClick(id)
    \/ \E k \in Slots : FetchOk(k) /\ UNCHANGED <<visitVars, replayVars, endpointVars, chunkVars>>
    \/ \E k \in Slots : \E d \in Deltas : ReplayDelta(k, d)
    \/ \E k \in Slots : \E t \in DoneTexts : DoneFrame(k, t) /\ UNCHANGED <<visitVars, replayVars, endpointVars, chunkVars>>
    \/ \E k \in Slots : ReadRejects(k) /\ UNCHANGED <<visitVars, replayVars, endpointVars, chunkVars>>
    \/ \E k \in Slots : StreamCloses(k) /\ UNCHANGED <<visitVars, replayVars, endpointVars, chunkVars>>

ReplaySpec == Init /\ [][ReplayNext]_vars

(* ------------------ one attempt at a time, any fragments --------------- *)

\* delta fragments: those of Deltas, and texts that need the repair
\* (no opening brace), that look complete and do not parse, that hold empty
\* notes, that hold the marketing marker in a value only
Fragments ==
    Deltas \cup {<<"D", ",", "M", "}">>,
                 <<"{", "D", ",", "M", "}", "}">>,
                 <<"{", "d", ",", "m", "}">>,
                 <<"{", "D", ",", "X", "}">>}

ParseNext ==
    \/ FetchDiffs /\ UNCHANGED <<visitVars, replayVars, endpointVars, chunkVars>>
    \/ \E id \in DiffIds : (\A k \in Slots : ~InFlight(k)) /\ ClickGenerate(id) /\ UNCHANGED <<visitVars, replayVars, endpointVars, chunkVars>>
    \/ \E k \in Slots : FetchOk(k) /\ UNCHANGED <<visitVars, replayVars, endpointVars, chunkVars>>
    \/ \E k \in Slots : \E d \in Fragments : DeltaFrame(k, d) /\ UNCHANGED <<visitVars, replayVars, endpointVars, chunkVars>>
    \/ \E k \in Slots : ReadRejects(k) /\ UNCHANGED <<visitVars, replayVars, endpointVars, chunkVars>>
    \/ \E k \in Slots : StreamCloses(k) /\ UNCHANGED <<visitVars, replayVars, endpointVars, chunkVars>>

ParseSpec == Init /\ [][ParseNext]_vars

(* ---------------------- the generate-notes endpoint -------------------- *)

\* a member of the request body: absent, null, or given
FieldValues == {Undefined, Null, "given"}

\* v == null
IsNullish(v) == v \in {Undefined, Null}

\* the requests: which POST handler ("stream" of lines 7-163, "parse" of lines
\* 172-236), whether request.json() resolves, and the members of the body
Requests ==
    [variant : {"stream", "parse"}, json : {TRUE}, id : FieldValues,
     description : FieldValues, diff : FieldValues]
    \cup
    [variant : {"stream", "parse"}, json : {FALSE}, id : {Undefined},
     description : {Undefined}, diff : {Undefined}]

\* an Error the runtime throws (SyntaxError, TypeError): it has no status
RuntimeError == [isError |-> TRUE, hasStatus |-> FALSE, status |-> NoStatus]

\* what the model's client can throw: an Error without status, an API error
\* with the HTTP status of the model's answer, a connection error (its status
\* property is there and undefined), a value that is not an Error
ModelFailures ==
    {RuntimeError,
     [isError |-> TRUE, hasStatus |-> TRUE, status |-> 401],
     [isError |-> TRUE, hasStatus |-> TRUE, status |-> 429],
     [isError |-> TRUE, hasStatus |-> TRUE, status |-> NoStatus],
     [isError |-> FALSE, hasStatus |-> FALSE, status |-> NoStatus]}

\* the status of a Response made with { status: s }: 200 when s is undefined
ResponseStatus(s) == IF s = NoStatus THEN 200 ELSE s

\* the catch block's Response for the thrown value e
ErrorResponse(e) ==
    [kind |-> "json",
     status |-> ResponseStatus(IF e.hasStatus THEN e.status ELSE 500),
     error |-> "Failed to generate notes",
     details |-> IF e.isError THEN "error.message" ELSE "Unknown error generating notes"]

BadRequest == [kind |-> "json", status |-> 400, error |-> "Missing required fields", details |-> Undefined]

SseResponse == [kind |-> "sse", status |-> 200, error |-> Undefined, details |-> Undefined]

ParsedResponse == [kind |-> "json", status |-> 200, error |-> Undefined, details |-> Undefined]

EventTypes == {"response.created", "response.output_text.delta", "response.output_text.done"}

\* data: {"event": event.type, "data": event}
Frame(e) == [event |-> e.type, data |-> e]

Pending == request.variant # "none" /\ response.kind = "none"

\* request.json() rejects, or diff.length of the log line throws
ThrowsBeforeCheck == ~request.json \/ IsNullish(request.diff)

\* id == null || description == null || diff == null
MissingField == IsNullish(request.id) \/ IsNullish(request.description) \/ IsNullish(request.diff)

\* the handler throws before the check of the members
PostThrows ==
    /\ Pending
    /\ ThrowsBeforeCheck
    /\ response' = ErrorResponse(RuntimeError)
    /\ UNCHANGED <<request, model, stream, pageVars, visitVars, replayVars, chunkVars>>

\* a member is missing: 400
PostMissingField ==
    /\ Pending
    /\ ~ThrowsBeforeCheck
    /\ MissingField
    /\ response' = BadRequest
    /\ UNCHANGED <<request, model, stream, pageVars, visitVars, replayVars, chunkVars>>

\* new OpenAI(...), or the call of the model, throws e
PostModelThrows(e) ==
    /\ Pending
    /\ ~ThrowsBeforeCheck
    /\ ~MissingField
    /\ model' = [model EXCEPT !.state = "failed", !.thrown = e]
    /\ response' = ErrorResponse(e)
    /\ UNCHANGED <<request, stream, pageVars, visitVars, replayVars, chunkVars>>

\* openai.responses.stream(...) resolves: the Response with the ReadableStream
PostStreams ==
    /\ Pending
    /\ request.variant = "stream"
    /\ ~ThrowsBeforeCheck
    /\ ~MissingField
    /\ model' = [model EXCEPT !.state = "streaming"]
    /\ response' = SseResponse
    /\ stream' = [state |-> "open", frames |-> <<>>]
    /\ UNCHANGED <<request, pageVars, visitVars, replayVars, chunkVars>>

\* openai.responses.parse(...) resolves: the parsed output as JSON
PostParses ==
    /\ Pending
    /\ request.variant = "parse"
    /\ ~ThrowsBeforeCheck
    /\ ~MissingField
    /\ model' = [model EXCEPT !.state = "ended"]
    /\ response' = ParsedResponse
    /\ UNCHANGED <<request, stream, pageVars, visitVars, replayVars, chunkVars>>

\* one turn of for await (const event of events): controller.enqueue of its frame
RelayEvent(e) ==
    /\ model.state = "streaming"
    /\ Len(model.emitted) < MaxEvents
    /\ model' = [model EXCEPT !.emitted = Append(@, e)]
    /\ stream' = [stream EXCEPT !.frames = Append(@, Frame(e))]
    /\ UNCHANGED <<request, response, pageVars, visitVars, replayVars, chunkVars>>

\* the events end: controller.close()
ModelEnds ==
    /\ model.state = "streaming"
    /\ model' = [model EXCEPT !.state = "ended"]
    /\ stream' = [stream EXCEPT !.state = "closed"]
    /\ UNCHANGED <<request, response, pageVars, visitVars, replayVars, chunkVars>>

\* StreamAfterFailure with controller.close() in the catch block
StreamClosedAfterFailure == "closed"

\* controller.error(error)
StreamAfterFailure == "errored"

\* the iteration throws e
ModelFails(e) ==
    /\ model.state = "streaming"
    /\ model' = [model EXCEPT !.state = "failed", !.thrown = e]
    /\ stream' = [stream EXCEPT !.state = StreamAfterFailure]
    /\ UNCHANGED <<request, response, pageVars, visitVars, replayVars, chunkVars>>

EndpointInit ==
    /\ PageInit
    /\ request \in Requests
    /\ model = NoModel
    /\ response = NoResponse
    /\ stream = NoStream
    /\ ChunkIdle

EndpointNext ==
    \/ PostThrows
    \/ PostMissingField
    \/ \E e \in ModelFailures : PostModelThrows(e)
    \/ PostStreams
    \/ PostParses
    \/ \E t \in EventTypes : RelayEvent([type |-> t])
    \/ ModelEnds
    \/ \E e \in ModelFailures : ModelFails(e)

EndpointSpec == EndpointInit /\ [][EndpointNext]_vars

(* --------------------- the read loop on one response ------------------- *)

\* The body of a response is a sequence of bytes, the text of the loop a
\* sequence of characters.  Bytes: "da" and "ta: " (the two halves of the
\* prefix `data: `), "x" (a one-byte character of a payload), "C3" and "A9"
\* (the two bytes of the character U+00E9), ":" (a comment line), "LF".
\* Characters: the one-byte ones, "U+00E9", and "U+FFFD", the replacement
\* character.
LF == "LF"

PrefixText == <<"da", "ta: ">>

\* the payloads of the data frames: the JSON text of an envelope, one
\* character of it shown
Payloads == {<<"x">>, <<"C3", "A9">>}

\* the frames a body is made of, each ended by a double newline
BodyFrames == {PrefixText \o p \o <<LF, LF>> : p \in Payloads} \cup {<<":", LF, LF>>}

RECURSIVE BodiesOf(_)
BodiesOf(n) == IF n = 0 THEN {<<>>} ELSE {b \o f : b \in BodiesOf(n - 1), f \in BodyFrames}

Bodies == UNION {BodiesOf(n) : n \in 1..MaxBodyFrames}

\* decoder.decode(value), without { stream: true }: each call decodes its
\* bytes on their own, and a byte sequence that is not a whole character
\* becomes U+FFFD
RECURSIVE Decode(_)
Decode(bs) ==
    IF bs = <<>> THEN <<>>
    ELSE IF bs[1] = "C3"
         THEN IF Len(bs) >= 2 /\ bs[2] = "A9"
              THEN <<"U+00E9">> \o Decode(SubSeq(bs, 3, Len(bs)))
              ELSE <<"U+FFFD">> \o Decode(Tail(bs))
         ELSE IF bs[1] = "A9"
              THEN <<"U+FFFD">> \o Decode(Tail(bs))
              ELSE <<bs[1]>> \o Decode(Tail(bs))

\* where the first double newline of s starts, 0 when it has none
FirstBreak(s) ==
    LET at == {i \in 1..(Len(s) - 1) : s[i] = LF /\ s[i + 1] = LF}
    IN  IF at = {} THEN 0 ELSE Min(at)

\* s.split('\n\n')
RECURSIVE Split(_)
Split(s) ==
    LET i == FirstBreak(s)
    IN  IF i = 0 THEN <<s>>
        ELSE <<SubSeq(s, 1, i - 1)>> \o Split(SubSeq(s, i + 2, Len(s)))

\* line.startsWith('data: ')
StartsWithPrefix(line) == Len(line) >= 2 /\ SubSeq(line, 1, 2) = PrefixText

\* line.substring(6) of the lines the for loop handles, in its order
Handled(lines) ==
    LET sel == SelectSeq(lines, StartsWithPrefix)
    IN  [i \in 1..Len(sel) |-> SubSeq(sel[i], 3, Len(sel[i]))]

\* reader.read() resolves with a chunk of n bytes: the body of the while loop
ReadChunk(n) ==
    /\ loop = "reading"
    /\ n \in 1..Len(wire)
    /\ LET lines == Split(partialData \o Decode(SubSeq(wire, 1, n)))
       IN  /\ partialData' = lines[Len(lines)]
           /\ handled' = handled \o Handled(SubSeq(lines, 1, Len(lines) - 1))
    /\ wire' = SubSeq(wire, n + 1, Len(wire))
    /\ UNCHANGED <<body, loop, pageVars, visitVars, replayVars, endpointVars>>

\* reader.read() resolves with done: break
ReadDone ==
    /\ loop = "reading"
    /\ wire = <<>>
    /\ loop' = "ended"
    /\ UNCHANGED <<body, wire, partialData, handled, pageVars, visitVars, replayVars, endpointVars>>

\* the read loop starts on a response body
ChunkInit ==
    /\ PageInit
    /\ EndpointIdle
    /\ body \in Bodies
    /\ wire = body
    /\ loop = "reading"
    /\ partialData = <<>>
    /\ handled = <<>>

ChunkNext ==
    \/ \E n \in 1..(4 * MaxBodyFrames + 4) : ReadChunk(n)
    \/ ReadDone

ChunkSpec == ChunkInit /\ [][ChunkNext]_vars

(* ------------------------------- claims -------------------------------- *)

IsDone(e) == e.present /\ ~e.loading /\ e.error = Null

TransportFailure(k) == FetchRejects(k) \/ FetchNotOk(k) \/ FetchNoBody(k) \/ ReadRejects(k)

Failure(k) == TransportFailure(k) \/ MalformedFrame(k)

\* C1: a delta frame leaves the entry as it was or writes an entry with
\* loading = true and error = null; an entry is turned into a done one by a
\* done frame alone.
C1_DeltaNeverDone ==
    [][\A i \in DiffIds :
          notes'[i] # notes[i] =>
              /\ (\E k \in Slots : \E d \in Deltas : att[k].id = i /\ DeltaFrame(k, d))
                     => (notes'[i].loading /\ notes'[i].error = Null)
              /\ IsDone(notes'[i])
                     => \E k \in Slots : \E t \in DoneTexts :
                            att[k].id = i /\ Parses(t) /\ DoneFrame(k, t)]_vars

\* an attempt's speculative parse has succeeded: its entry is loading with both notes
C1_Witness ==
    \E k \in Slots :
        /\ att[k].pc = "read"
        /\ att[k].assembled # <<>>
        /\ notes[att[k].id] = Entry(TRUE, Null, Obj("dev", "mkt"))

\* C2: while an attempt is the only one of its id and has received deltas, the
\* accumulator of its id holds their concatenation.
C2_AccumulatorIsConcatenation ==
    \A k \in Slots :
        (/\ att[k].pc = "read"
         /\ att[k].assembled # <<>>
         /\ \A j \in Slots \ {k} : InFlight(j) => att[j].id # att[k].id)
        => jsonAccumulator[att[k].id] = att[k].assembled

\* C3: a done frame whose text parses makes the entry loading = false,
\* error = null, data = the parsed value of the text.
C3_DoneSetsParsedValue ==
    [][\A k \in Slots :
          (att[k].pc = "read" /\ frames' # frames) =>
              \A t \in DoneTexts :
                  (Parses(t) /\ DoneFrame(k, t)) =>
                      notes'[att[k].id] = Entry(FALSE, Null, ParsedValue(t))]_vars

\* a done frame (developer note alone) has replaced the partial data (both
\* notes) an earlier delta frame of the same attempt had written
C3_Witness ==
    \E k \in Slots :
        /\ att[k].pc = "read"
        /\ att[k].sawDone
        /\ att[k].accSnap = <<>>
        /\ att[k].assembled = FullText
        /\ notes[att[k].id] = Entry(FALSE, Null, Obj("dev", Undefined))

\* C4: no two attempts for the same diff id are in flight at the same time.
C4_OneAttemptPerId ==
    \A j, k \in Slots :
        (j # k /\ InFlight(j) /\ InFlight(k)) => att[j].id # att[k].id

\* C5: a run never starts generation for an id whose entry is, at that moment,
\* done with no error.
C5_BatchSkipsDone ==
    [][\A k \in Slots :
          (att[k].pc = "free" /\ att'[k].pc = "fetch" /\ att'[k].run # 0)
              => ~IsCached(notes[att'[k].id])]_vars

Position(id, sq) == Min({i \in 1..Len(sq) : sq[i] = id})

\* C6: a run has at most one of its attempts in flight, and the ids it has
\* started generation for follow the order of the diff list.
C6_Sequential ==
    \A r \in Runs :
        /\ Cardinality({k \in Slots : InFlight(k) /\ att[k].run = r}) <= 1
        /\ \A i, j \in 1..Len(run[r].started) :
              i < j => Position(run[r].started[i], run[r].diffs)
                         < Position(run[r].started[j], run[r].diffs)

\* a run is generating its second item
C6_Witness ==
    \E r \in Runs :
        /\ run[r].pc = "await"
        /\ Len(run[r].started) = 2
        /\ \E k \in Slots : InFlight(k) /\ att[k].run = r

\* C7: when a run goes from awaiting generateNotes to the pacing delay, the
\* entry of the item it generated is no longer loading.
C7_MovesOnWhenTerminal ==
    [][\A r \in Runs :
          (run[r].pc = "await" /\ run'[r].pc = "delay")
              => ~IsLoading(notes'[run[r].diffs[run[r].idx]])]_vars

Skipped(e) == IsCached(e) \/ IsLoading(e)

C9_OneBatchRun == Cardinality({r \in Runs : ActiveRun(r)}) <= 1

\* a loop is in its pacing delay, no entry is loading and the list is not
\* empty: the processing-all flag alone keeps a second loop from starting
C9_Witness ==
    /\ \E r \in Runs : run[r].pc = "delay"
    /\ HasFreeRun
    /\ Len(diffs) > 0
    /\ \A i \in DiffIds : ~IsLoading(notes[i])
    /\ processingAll

\* C10: a transport failure of an attempt makes the entry of its id
\* loading = false, error = a message, data = null.
C10_TransportFailureSetsError ==
    [][\A k \in Slots :
          (InFlight(k) /\ att'[k].pc = "ended" /\ TransportFailure(k)) =>
              /\ notes'[att[k].id].present
              /\ ~notes'[att[k].id].loading
              /\ notes'[att[k].id].error # Null
              /\ notes'[att[k].id].data = NullData]_vars

\* an attempt has failed before any frame was handled (the fetch rejected, the
\* response was not OK or had no body, or the first read rejected): the entry
\* holds the message and no data
C10_Witness ==
    /\ frames = 0
    /\ \E i \in DiffIds : notes[i] = Entry(FALSE, ErrorMessage, NullData)

\* C11: when the response stream of an attempt ends without a done frame having
\* been handled, the entry of its id becomes loading = false, error = a
\* message, data = null.
C11_StreamEndSetsError ==
    [][\A k \in Slots :
          (att[k].pc = "read" /\ ~att[k].sawDone /\ att'[k].pc = "ended" /\ StreamCloses(k)) =>
              /\ notes'[att[k].id].present
              /\ ~notes'[att[k].id].loading
              /\ notes'[att[k].id].error # Null
              /\ notes'[att[k].id].data = NullData]_vars

\* C12: a done frame whose text does not parse leaves every entry as it was.
C12_UnparsableDoneLeavesEntry ==
    [][\A k \in Slots :
          (att[k].pc = "read" /\ frames' # frames) =>
              \A t \in DoneTexts :
                  (~Parses(t) /\ DoneFrame(k, t)) => notes' = notes]_vars

\* the one attempt started so far has handled one frame, a done frame: its
\* text did not parse, as the entry is still the loading entry of the start
C12_Witness ==
    /\ att[1].pc = "read"
    /\ att[1].sawDone
    /\ att[2].pc = "free"
    /\ frames = 1
    /\ notes[att[1].id] = LoadingEntry

\* C13: an entry that is done with no error is in the cache after the save
\* pass, and a page load less than 24 hours after the saved timestamp seeds an
\* entry for its id with loading = false, error = null and the same data.
C13_CacheRoundTrip ==
    [][/\ \A i \in DiffIds : IsDone(notes[i]) => storage[i].present
       /\ Reload =>
             \A i \in DiffIds :
                 (IsDone(notes[i]) /\ now - storage[i].timestamp < CACHE_EXPIRATION)
                     => notes'[i] = Entry(FALSE, Null, notes[i].data)]_vars

\* a page load has just seeded an entry holding the developer note alone from
\* a cache entry one millisecond short of 24 hours old
C13_Witness ==
    \E i \in DiffIds :
        /\ diffs = <<>>
        /\ loadedAge[i] = CACHE_EXPIRATION - 1
        /\ notes[i] = Entry(FALSE, Null, Obj("dev", Undefined))

\* C14: a page load seeds an entry only from a cache entry less than 24 hours
\* old; a cache entry 24 hours old or older gets no entry; every seeded entry
\* has loading = false and error = null.
C14_LoadDropsExpired ==
    [][Reload =>
          \A i \in DiffIds :
              /\ (storage[i].present /\ now - storage[i].timestamp >= CACHE_EXPIRATION)
                     => ~notes'[i].present
              /\ notes'[i].present =>
                     /\ storage[i].present
                     /\ now - storage[i].timestamp < CACHE_EXPIRATION
                     /\ ~notes'[i].loading
                     /\ notes'[i].error = Null]_vars

\* a page load has just read a cache entry exactly 24 hours old and seeded nothing
C14_Witness ==
    \E i \in DiffIds :
        /\ diffs = <<>>
        /\ loadedAge[i] = CACHE_EXPIRATION
        /\ ~notes[i].present

\* C15: every cache entry is that of an entry with loading = false,
\* error = null and data, and holds that data.
C15_CacheHoldsOnlyDone ==
    \A i \in DiffIds :
        storage[i].present =>
            /\ notes[i].present
            /\ ~notes[i].loading
            /\ notes[i].error = Null
            /\ ~notes[i].data.isNull
            /\ ParsedValue(storage[i].text) = notes[i].data

\* one entry is in the cache while another, loading with partial data, is not
C15_Witness ==
    \E i, j \in DiffIds :
        /\ storage[i].present
        /\ ~storage[j].present
        /\ notes[j] = Entry(TRUE, Null, Obj("dev", "mkt"))

\* C16: a cache entry keeps its timestamp across a save pass that a change of
\* another entry has triggered.
C16_TimestampRetained ==
    [][\A i \in DiffIds :
          (/\ storage[i].present
           /\ storage'[i].present
           /\ notes'[i] = notes[i]
           /\ \E j \in DiffIds \ {i} : notes'[j] # notes[j]
           /\ ~Reload)
              => storage'[i].timestamp = storage[i].timestamp]_vars

\* C17: a request whose body lacks id, description or diff is answered with
\* status 400 and an error body, and the model is not called.
C17_MissingFieldIs400 ==
    (/\ response.kind # "none"
     /\ request.json
     /\ request.id = Undefined \/ request.description = Undefined \/ request.diff = Undefined)
        => /\ response.status = 400
           /\ response.error # Undefined
           /\ model.state = "idle"

\* C18: when the handler fails before streaming starts, the answer is a JSON
\* body {error, details} with the failure's own status when it carries one,
\* and 500 otherwise.
C18_FailureStatus ==
    LET early == response.kind # "none" /\ (~request.json \/ IsNullish(request.diff))
        upstream == model.state = "failed" /\ stream.state = "none"
        carried == upstream /\ model.thrown.hasStatus /\ model.thrown.status # NoStatus
    IN  (early \/ upstream) =>
            /\ response.kind = "json"
            /\ response.error # Undefined
            /\ response.details # Undefined
            /\ response.status = IF carried THEN model.thrown.status ELSE 500

\* C19: the stream holds one frame per event the model has emitted, in the
\* model's order; it is closed only when the model's events have ended, and it
\* is errored when the model has failed while streaming.
C19_RelayInOrder ==
    /\ stream.state # "none" =>
           /\ Len(stream.frames) = Len(model.emitted)
           /\ \A i \in 1..Len(model.emitted) :
                  stream.frames[i] = [event |-> model.emitted[i].type, data |-> model.emitted[i]]
    /\ stream.state = "closed" => model.state = "ended"
    /\ (model.state = "failed" /\ response.kind = "sse") => stream.state = "errored"
    /\ (model.state = "ended" /\ response.kind = "sse") => stream.state = "closed"

\* the model has failed after a delta event and a done event: both frames are
\* in the stream, which is errored
C19_Witness ==
    /\ model.state = "failed"
    /\ stream.state = "errored"
    /\ Len(stream.frames) = 2
    /\ stream.frames[1].event = "response.output_text.delta"
    /\ stream.frames[2].event = "response.output_text.done"

\* C20: of two attempts for the same id, the second started after the first
\* had ended, that have handled the same sequence of delta frames, the second
\* has parsed the same sequence of partial values as the first.
C20_ReplayIdempotent ==
    \A j, k \in Slots :
        (/\ j < k
         /\ att[j].pc = "ended"
         /\ history[j].id # ""
         /\ history[j].id = history[k].id
         /\ history[j].deltas # <<>>
         /\ history[j].deltas = history[k].deltas)
            => history[j].partials = history[k].partials

\* C21: while writing the cache throws, no step changes the cache and the
\* handlers set the entries they set otherwise (a click the loading entry, a
\* done frame with parsable text the done entry, a failed request the error
\* entry) with the attempt going on; a page load in which reading or parsing
\* the cache throws seeds no entry.
C21_StorageFailureSwallowed ==
    [][/\ SaveThrows => storage' = storage
       /\ (SaveThrows /\ notes' # notes /\ ~Reload) =>
             /\ \A id \in DiffIds :
                    ClickGenerate(id) =>
                        /\ notes' = [notes EXCEPT ![id] = LoadingEntry]
                        /\ \E k \in Slots : att'[k].pc = "fetch" /\ att'[k].id = id
             /\ \A k \in Slots :
                    /\ \A t \in DoneTexts :
                           DoneFrame(k, t) =>
                               /\ notes' = [notes EXCEPT ![att[k].id] = CompletedEntry(ParsedValue(t))]
                               /\ att'[k].pc = "read"
                    /\ FetchNotOk(k) =>
                           notes' = [notes EXCEPT ![att[k].id] = FailedEntry(ErrorMessage)]
       /\ (LoadThrows /\ Reload) => \A i \in DiffIds : ~notes'[i].present]_vars

\* every access to localStorage throws: the page load has seeded nothing from
\* the cache entry of one id, and the notes of the other id, generated since,
\* are done and not in the cache
C21_Witness ==
    \E i, j \in DiffIds :
        /\ fault = "denied"
        /\ storage[i].present
        /\ ~notes[i].present
        /\ IsDone(notes[j])
        /\ ~storage[j].present

\* what the loop handles when the whole body arrives as one chunk
HandledWhole(b) ==
    LET lines == Split(Decode(b))
    IN  Handled(SubSeq(lines, 1, Len(lines) - 1))

\* C22: however the body is cut into chunks, the payloads the loop has handled
\* are the first of those it handles when the body arrives as one chunk, in
\* the same order, and all of them once the stream has ended.
C22_ChunkingIndependent ==
    /\ Len(handled) <= Len(HandledWhole(body))
    /\ handled = SubSeq(HandledWhole(body), 1, Len(handled))
    /\ loop = "ended" => handled = HandledWhole(body)

\* the status of an entry
Status(e) ==
    IF ~e.present THEN "idle"
    ELSE IF e.loading THEN "loading"
    ELSE IF e.error # Null THEN "error"
    ELSE "done"

\* C23: within a visit, an entry whose status changes to done or to error was
\* loading before the change.
C23_NoTransitionSkipsLoading ==
    [][\A i \in DiffIds :
          (Status(notes'[i]) # Status(notes[i]) /\ Status(notes'[i]) \in {"done", "error"})
              => Status(notes[i]) = "loading"]_vars

\* C24: once the only attempt started so far has handled a done frame and the
\* entry of its id is done, no step changes that entry while the attempt is
\* reading.
C24_DoneIsTerminal ==
    [][\A k \in Slots :
          (/\ att[k].pc = "read"
           /\ att[k].sawDone
           /\ IsDone(notes[att[k].id])
           /\ \A j \in Slots \ {k} : att[j].pc = "free")
              => notes'[att[k].id] = notes[att[k].id]]_vars

\* a is the end of b
IsSuffix(a, b) == Len(a) <= Len(b) /\ SubSeq(b, Len(b) - Len(a) + 1, Len(b)) = a

\* C25: the text an attempt's delta handler stores in the accumulator of its
\* id (the text it tries to parse) is made of deltas that attempt has
\* received: it is the end of their concatenation.
C25_AccumulatorHoldsOwnDeltas ==
    [][\A k \in Slots :
          (/\ att[k].pc = "read"
           /\ att'[k].pc = "read"
           /\ att'[k].assembled # att[k].assembled)
              => IsSuffix(jsonAccumulator'[att[k].id], att'[k].assembled)]_vars

\* a field of the parsed value, the empty string when the value has none
FieldOr(x) == IF x \in {"dev", "mkt"} THEN x ELSE ""

\* C26: a delta frame whose accumulated text has no closing brace, lacks one
\* of the two markers or does not parse after the repair changes no entry and
\* leaves the attempt reading; one whose repaired text parses makes the entry
\* of the attempt's id loading with error = null and the two fields of the
\* parsed value, the empty string for a field it lacks, and changes no other
\* entry.
C26_SpeculativeParse ==
    [][\A k \in Slots :
          (att[k].pc = "read" /\ frames' # frames) =>
              \A d \in Fragments :
                  DeltaFrame(k, d) =>
                      LET u == att[k].accSnap \o d
                          marked == /\ Includes(u, "}")
                                    /\ \E i \in 1..Len(u) : u[i] \in {"D", "d"}
                                    /\ \E i \in 1..Len(u) : u[i] \in {"M", "m", "X"}
                          fixed == (IF u[1] = "{" THEN <<>> ELSE <<"{">>) \o u
                                       \o (IF u[Len(u)] = "}" THEN <<>> ELSE <<"}">>)
                          v == ParsedValue(fixed)
                      IN  /\ att'[k].pc = "read"
                          /\ IF marked /\ Parses(fixed)
                             THEN notes' = [notes EXCEPT ![att[k].id] =
                                      Entry(TRUE, Null, Obj(FieldOr(v.developerNote), FieldOr(v.marketingNote)))]
                             ELSE notes' = notes]_vars

\* an attempt's delta text held the developer note and the marketing marker in
\* a value only: the entry is loading with the developer note and an empty
\* marketing note
C26_Witness ==
    \E k \in Slots :
        /\ att[k].pc = "read"
        /\ att[k].assembled = <<"{", "D", ",", "X", "}">>
        /\ notes[att[k].id] = Entry(TRUE, Null, Obj("dev", ""))

\* C27: a step that changes the entry of an id changes no entry of another
\* id, and it is a step of an attempt for that id: the attempt starts, handles
\* a frame or ends, and no attempt for another id moves in it.
C27_UpdatesAreLocal ==
    [][\A i \in DiffIds :
          notes'[i] # notes[i] =>
              /\ \A j \in DiffIds \ {i} : notes'[j] = notes[j]
              /\ \A k \in Slots : att'[k] # att[k] => (att[k].id = i \/ att'[k].id = i)
              /\ \E k \in Slots :
                     \/ att[k].pc = "free" /\ att'[k].pc = "fetch" /\ att'[k].id = i
                     \/ /\ InFlight(k)
                        /\ att[k].id = i
                        /\ frames' # frames \/ att'[k].pc = "ended"]_vars

\* attempts for both ids are reading, each has handled one frame: the entry of
\* a holds what its delta frame wrote, the entry of b what its done frame wrote
C27_Witness ==
    \E j, k \in Slots :
        /\ att[j].pc = "read"
        /\ att[j].id = "a"
        /\ att[j].assembled = FullText
        /\ att[k].pc = "read"
        /\ att[k].id = "b"
        /\ att[k].sawDone
        /\ notes["a"] = Entry(TRUE, Null, Obj("dev", "mkt"))
        /\ notes["b"] = Entry(FALSE, Null, Obj("dev", Undefined))

\* C28: when no request and no response stream stays pending for ever, an
\* entry that is loading is done or error at some later time.
C28_LoadingEnds ==
    \A i \in DiffIds :
        IsLoading(notes[i]) ~> (Status(notes[i]) \in {"done", "error"})

\* C29: the cache holds an entry for exactly the ids whose entry has
\* loading = false, error = null and data, and each cache entry holds the data
\* of that entry.
C29_CacheIsExactlyDone ==
    \A i \in DiffIds :
        /\ storage[i].present <=>
               (notes[i].present /\ ~notes[i].loading /\ notes[i].error = Null /\ ~notes[i].data.isNull)
        /\ storage[i].present => ParsedValue(storage[i].text) = notes[i].data

\* the page load read a cache entry exactly 24 hours old for one id and seeded
\* nothing: the cache holds no entry for it any more, and holds the notes
\* generated for the other id
C29_Witness ==
    \E i, j \in DiffIds :
        /\ loadedAge[i] = CACHE_EXPIRATION
        /\ ~notes[i].present
        /\ ~storage[i].present
        /\ IsDone(notes[j])
        /\ storage[j].present

\* C30: a call of generateNotes gets past its first test (an attempt starts,
\* the accumulator of the id is reset, the entry becomes the loading entry)
\* only for an id whose entry is absent or in error; for an id whose entry is
\* done it changes nothing.
C30_DoneIsNotRegenerated ==
    [][\A k \in Slots :
          (att[k].pc = "free" /\ att'[k].pc = "fetch") =>
              /\ Status(notes[att'[k].id]) \in {"idle", "error"}
              /\ notes'[att'[k].id] = LoadingEntry
              /\ jsonAccumulator'[att'[k].id] = <<>>]_vars

\* C31: the processing-all flag is true exactly while a generateAllNotes loop
\* is active, and, when every request and stream settles, a flag that is true
\* is false at some later time.
C31_FlagTracksRun ==
    /\ [](processingAll <=> \E r \in Runs : ActiveRun(r))
    /\ processingAll ~> ~processingAll

\* the first loop has finished after its attempt for a failed and its attempt
\* for b ended with the notes done: the flag is false
C31_Witness ==
    /\ run[1].pc = "finished"
    /\ run[2].pc = "free"
    /\ ~processingAll
    /\ att[1].pc = "ended"
    /\ att[2].pc = "ended"
    /\ att[3].pc = "free"
    /\ Status(notes["a"]) = "error"
    /\ Status(notes["b"]) = "done"

====
